---- MODULE Spec2Model ----
(***************************************************************************)
(* Model of patch_android_storage.py: the storage-path patcher             *)
(* (AndroidStoragePatcher), its post-patch verification and the            *)
(* RollbackManager.                                                        *)
(*                                                                         *)
(* Text model.  A file's content is a sequence of text fragments           *)
(* (tokens); the text of the file is the concatenation of its tokens.      *)
(* The alphabet is chosen so that no regular expression of the script      *)
(* matches across a token boundary, except for the one-character negative  *)
(* lookahead (?!/) which inspects the first character of the next token.   *)
(* A token that spans two lines is described by Expand.                    *)
(***************************************************************************)
EXTENDS Integers, Sequences, FiniteSets, TLC

\* ------------------------------------------------------------------------
\* Bounds of the model
\* ------------------------------------------------------------------------
MaxLen == 3      \* tokens per file content in the text-level specification
MaxTime == 2     \* distinct seconds of the wall clock
MaxRuns == 2     \* invocations of the tool in one behaviour
MaxDepth == 2    \* nesting of backups/<timestamp>/ a path may have before
                 \* the operating system rejects it (ENAMETOOLONG)
MaxDeviations == 1  \* files of the initial tree that differ from the typical
                    \* project (missing or undecodable)

\* ------------------------------------------------------------------------
\* Text fragments
\* ------------------------------------------------------------------------
NL == "\n"
TAB == "\t"
HASH == "#"
CODE == "pass"
SLASHX == "/x"

\* export_presets.cfg
MANAGE_F == "permissions/manage_external_storage=false"
READ_F == "permissions/read_external_storage=false"
WRITE_F == "permissions/write_external_storage=false"
MANAGE_T == "permissions/manage_external_storage=true"
READ_T == "permissions/read_external_storage=true"
WRITE_T == "permissions/write_external_storage=true"

\* string literals with internal-storage paths
L_SAVES == "\"user://saves\""
L_SAVES_SL == "\"user://saves/\""
L_SAVES_OLD == "\"user://saves_old\""
L_CAMPAIGN == "\"user://saves/CAMPAIGN.sav\""
L_ACH == "\"user://achievements.sav\""
L_MAR == "\"user://marathon_recordings\""
L_MAR_SL == "\"user://marathon_recordings/\""
L_MC == "\"user://mod_configs\""
L_MC_SL == "\"user://mod_configs/\""
L_RP == "\"user://resource_packs\""
L_RP_SL == "\"user://resource_packs/\""
L_RP_BASE == "\"user://resource_packs/BaseAssets\""
L_SETTINGS == "\"user://settings.cfg\""
L_ROM == "\"user://baserom.nes\""
L_ROMPTR == "\"user://rom_pointer.smb\""

\* their external-storage counterparts (EXTERNAL_STORAGE_BASE prefixed)
E_SAVES == "\"/storage/emulated/0/smb1r.android/saves\""
E_SAVES_SL == "\"/storage/emulated/0/smb1r.android/saves/\""
E_ACH == "\"/storage/emulated/0/smb1r.android/achievements.sav\""
E_MAR == "\"/storage/emulated/0/smb1r.android/marathon_recordings\""
E_MAR_SL == "\"/storage/emulated/0/smb1r.android/marathon_recordings/\""
E_MC == "\"/storage/emulated/0/smb1r.android/mod_configs\""
E_MC_SL == "\"/storage/emulated/0/smb1r.android/mod_configs/\""
E_RP == "\"/storage/emulated/0/smb1r.android/resource_packs\""
E_RP_SL == "\"/storage/emulated/0/smb1r.android/resource_packs/\""

\* constant declarations and calls
C_ROMPTR == "const ROM_POINTER_PATH := \"user://rom_pointer.smb\""
C_ROM == "const ROM_PATH := \"user://baserom.nes\""
C_ASSETS == "const ROM_ASSETS_PATH := \"user://resource_packs/BaseAssets\""
C_SETTINGS == "const SETTINGS_DIR := \"user://settings.cfg\""
C_MODCFG == "const MOD_CONFIG_DIR_PATH := \"user://mod_configs\""
C_SAVE_DIR == "const SAVE_DIR := \"user://saves/CAMPAIGN.sav\""
MK_RP == "DirAccess.make_dir_absolute(\"user://resource_packs\")"
MKR_SAVES == "DirAccess.make_dir_recursive_absolute(\"user://saves\")"
\* the same call written over two lines
MKR_SAVES_ML == "DirAccess.make_dir_recursive_absolute(\n\"user://saves\")"
MKR_OPEN == "DirAccess.make_dir_recursive_absolute("
SAVES_CLOSE == "\"user://saves\")"

E_C_ROMPTR == "const ROM_POINTER_PATH := \"/storage/emulated/0/smb1r.android/rom_pointer.smb\""
E_C_ROM == "const ROM_PATH := \"/storage/emulated/0/smb1r.android/baserom.nes\""
E_C_ASSETS == "const ROM_ASSETS_PATH := \"/storage/emulated/0/smb1r.android/resource_packs/BaseAssets\""
E_C_SETTINGS == "const SETTINGS_DIR := \"/storage/emulated/0/smb1r.android/settings.cfg\""
E_C_MODCFG == "const MOD_CONFIG_DIR_PATH := \"/storage/emulated/0/smb1r.android/mod_configs\""
E_C_SAVE_DIR == "const SAVE_DIR := \"/storage/emulated/0/smb1r.android/saves/CAMPAIGN.sav\""
E_MKR_RP == "DirAccess.make_dir_recursive_absolute(\"/storage/emulated/0/smb1r.android/resource_packs\")"
E_MKR_SAVES == "DirAccess.make_dir_recursive_absolute(\"/storage/emulated/0/smb1r.android/saves\")"
E_MKR_SAVES_ML == "DirAccess.make_dir_recursive_absolute(\n\"/storage/emulated/0/smb1r.android/saves\")"
E_SAVES_CLOSE == "\"/storage/emulated/0/smb1r.android/saves\")"

\* The lines a token occupies: a token holding a newline is the sequence of
\* its line pieces separated by NL.
Expand(t) ==
    CASE t = MKR_SAVES_ML -> <<MKR_OPEN, NL, SAVES_CLOSE>>
      [] t = E_MKR_SAVES_ML -> <<MKR_OPEN, NL, E_SAVES_CLOSE>>
      [] OTHER -> <<t>>

RECURSIVE Flatten(_)
Flatten(c) ==
    IF c = <<>> THEN <<>> ELSE Expand(Head(c)) \o Flatten(Tail(c))

\* str.count('\n') of a piece sequence
RECURSIVE count_nl(_)
count_nl(s) ==
    IF s = <<>> THEN 0
    ELSE (IF Head(s) = NL THEN 1 ELSE 0) + count_nl(Tail(s))

\* content[:k].count('\n') + 1 where k is the start of token i
LineNumber(c, i) == count_nl(Flatten(SubSeq(c, 1, i - 1))) + 1

\* content.split('\n')
RECURSIVE SplitFrom(_, _)
SplitFrom(s, cur) ==
    IF s = <<>> THEN <<cur>>
    ELSE IF Head(s) = NL THEN <<cur>> \o SplitFrom(Tail(s), <<>>)
    ELSE SplitFrom(Tail(s), Append(cur, Head(s)))

Lines(c) == SplitFrom(Flatten(c), <<>>)

\* '\n'.join(lines)
RECURSIVE Join(_)
Join(ls) ==
    IF Len(ls) = 0 THEN <<>>
    ELSE IF Len(ls) = 1 THEN ls[1]
    ELSE ls[1] \o <<NL>> \o Join(Tail(ls))

\* str.strip() removes leading whitespace pieces
RECURSIVE lstrip(_)
lstrip(line) ==
    IF line # <<>> /\ Head(line) = TAB THEN lstrip(Tail(line)) ELSE line

is_comment_line_nostrip(line) ==
    line # <<>> /\ Head(line) = HASH

is_comment_line(line) ==
    LET s == lstrip(line) IN s # <<>> /\ Head(s) = HASH

\* ------------------------------------------------------------------------
\* Regular expressions over token sequences
\* ------------------------------------------------------------------------
\* A rule is a (pattern, replacement, label) triple of the script.  sub maps
\* every token the pattern matches in to the token re.sub leaves in its
\* place; la holds the tokens in which the pattern's negative lookahead
\* (?!/) falls on the first character of the following token.  A match
\* begins at the start of its token, except in the tokens of MatchesInside,
\* where the matched literal is the second line of the token.
Rule(desc, sub, la) == [desc |-> desc, sub |-> sub, la |-> la]

MatchesInside(rule) ==
    IF rule.desc = "make_dir saves actualizado" THEN {} ELSE {MKR_SAVES_ML}

NoTokens == {}

StartsWithSlash(t) == t = SLASHX

\* the pattern matches at token i of c
re_match_at(rule, c, i) ==
    /\ c[i] \in DOMAIN rule.sub
    /\ (c[i] \in rule.la => ~(i < Len(c) /\ StartsWithSlash(c[i + 1])))

\* re.finditer(pattern, c): the match positions, left to right
RECURSIVE finditer_from(_, _, _)
finditer_from(rule, c, i) ==
    IF i > Len(c) THEN <<>>
    ELSE (IF re_match_at(rule, c, i) THEN <<i>> ELSE <<>>)
             \o finditer_from(rule, c, i + 1)

re_finditer(rule, c) == finditer_from(rule, c, 1)

\* re.search(pattern, c): the first match position, 0 for None
re_search(rule, c) ==
    LET ms == re_finditer(rule, c) IN IF ms = <<>> THEN 0 ELSE ms[1]

re_sub_first(rule, c) ==
    [i \in 1..Len(c) |->
        IF i = re_search(rule, c) THEN rule.sub[c[i]] ELSE c[i]]

\* re.sub(pattern, repl, c): every match replaced
re_sub(rule, c) ==
    [i \in 1..Len(c) |->
        IF re_match_at(rule, c, i) THEN rule.sub[c[i]] ELSE c[i]]

\* content[:m.start()].count('\n') + 1 for the match of rule in token i
MatchLine(rule, c, i) ==
    LineNumber(c, i) + (IF c[i] \in MatchesInside(rule) THEN 1 ELSE 0)

Change(line_number, description) ==
    [line_number |-> line_number, description |-> description,
     old_value |-> "", new_value |-> ""]

\* What a patch computes from the text it read: the text it would write,
\* the Change list, and (at) for every Change the token of the text read
\* that the Change reports.
Patched(content, changes, at) ==
    [content |-> content, changes |-> changes, at |-> at]

\* ------------------------------------------------------------------------
\* patch_export_presets
\* ------------------------------------------------------------------------
ExportPatterns ==
    << [key |-> MANAGE_F, repl |-> MANAGE_T, name |-> "manage_external_storage = true"],
       [key |-> READ_F, repl |-> READ_T, name |-> "read_external_storage = true"],
       [key |-> WRITE_F, repl |-> WRITE_T, name |-> "write_external_storage = true"] >>

\* re.match(pattern, line) for ^(\s*key\s*=\s*)false\s*$
export_match(p, line) ==
    LET s == lstrip(line)
    IN  s # <<>> /\ Head(s) = p.key /\ lstrip(Tail(s)) = <<>>

\* index of the first pattern that matches the line, 0 if none
export_first(line) ==
    IF \E k \in 1..Len(ExportPatterns) : export_match(ExportPatterns[k], line)
    THEN CHOOSE k \in 1..Len(ExportPatterns) :
            /\ export_match(ExportPatterns[k], line)
            /\ \A j \in 1..(k - 1) : ~export_match(ExportPatterns[j], line)
    ELSE 0

export_new_line(line) ==
    LET k == export_first(line)
        lead == SubSeq(line, 1, Len(line) - Len(lstrip(line)))
    IN  IF k = 0 THEN line ELSE lead \o <<ExportPatterns[k].repl>>

\* token index at which line i of the split begins
RECURSIVE LineStart(_, _)
LineStart(ls, i) ==
    IF i = 1 THEN 1 ELSE LineStart(ls, i - 1) + Len(ls[i - 1]) + 1

patch_export_presets(content) ==
    LET lines == Lines(content)
        hit == SelectSeq([i \in 1..Len(lines) |-> i],
                         LAMBDA i : export_first(lines[i]) # 0)
        new_lines == [i \in 1..Len(lines) |-> export_new_line(lines[i])]
    IN  Patched(IF hit = <<>> THEN content ELSE Join(new_lines),
                [k \in 1..Len(hit) |->
                    Change(hit[k], ExportPatterns[export_first(lines[hit[k]])].name)],
                [k \in 1..Len(hit) |->
                    LineStart(lines, hit[k])
                        + Len(lines[hit[k]]) - Len(lstrip(lines[hit[k]]))])

\* ------------------------------------------------------------------------
\* patches that log the first match of a rule and substitute all of them
\* ------------------------------------------------------------------------
RECURSIVE apply_first(_, _, _)
apply_first(rules, k, st) ==
    IF k > Len(rules) THEN st
    ELSE LET m == re_search(rules[k], st.content)
         IN  apply_first(rules, k + 1,
                IF m = 0 THEN st
                ELSE Patched(re_sub(rules[k], st.content),
                             Append(st.changes,
                                    Change(MatchLine(rules[k], st.content, m), rules[k].desc)),
                             Append(st.at, m)))

GlobalRules ==
    << Rule("ROM_POINTER_PATH actualizado", C_ROMPTR :> E_C_ROMPTR, NoTokens),
       Rule("ROM_PATH actualizado", C_ROM :> E_C_ROM, NoTokens),
       Rule("ROM_ASSETS_PATH actualizado", C_ASSETS :> E_C_ASSETS, NoTokens) >>

patch_global_gd(content) ==
    apply_first(GlobalRules, 1, Patched(content, <<>>, <<>>))

SettingsRules ==
    << Rule("SETTINGS_DIR actualizado", C_SETTINGS :> E_C_SETTINGS, NoTokens),
       Rule("make_dir resource_packs actualizado", MK_RP :> E_MKR_RP, NoTokens) >>

patch_settings_manager(content) ==
    apply_first(SettingsRules, 1, Patched(content, <<>>, <<>>))

ModLoaderRules ==
    << Rule("MOD_CONFIG_DIR_PATH actualizado", C_MODCFG :> E_C_MODCFG, NoTokens) >>

patch_mod_loader_path(content) ==
    apply_first(ModLoaderRules, 1, Patched(content, <<>>, <<>>))

\* ------------------------------------------------------------------------
\* patch_save_manager
\* ------------------------------------------------------------------------
\* the list with the general saves rule moved in front of the others
SaveRules_general_first ==
    << Rule("saves actualizado",
            L_SAVES :> E_SAVES @@ MKR_SAVES :> E_MKR_SAVES
                @@ MKR_SAVES_ML :> E_MKR_SAVES_ML, {L_SAVES}),
       Rule("SAVE_DIR constante actualizado", C_SAVE_DIR :> E_C_SAVE_DIR, NoTokens),
       Rule("make_dir saves actualizado",
            MKR_SAVES :> E_MKR_SAVES @@ MKR_SAVES_ML :> E_MKR_SAVES, NoTokens),
       Rule("saves/ actualizado", L_SAVES_SL :> E_SAVES_SL, NoTokens),
       Rule("achievements.sav actualizado", L_ACH :> E_ACH, NoTokens),
       Rule("marathon_recordings/ actualizado", L_MAR_SL :> E_MAR_SL, NoTokens),
       Rule("marathon_recordings actualizado", L_MAR :> E_MAR, {L_MAR}) >>

SaveRules ==
    << Rule("SAVE_DIR constante actualizado", C_SAVE_DIR :> E_C_SAVE_DIR, NoTokens),
       Rule("make_dir saves actualizado",
            MKR_SAVES :> E_MKR_SAVES @@ MKR_SAVES_ML :> E_MKR_SAVES, NoTokens),
       Rule("saves/ actualizado", L_SAVES_SL :> E_SAVES_SL, NoTokens),
       Rule("saves actualizado",
            L_SAVES :> E_SAVES @@ MKR_SAVES :> E_MKR_SAVES
                @@ MKR_SAVES_ML :> E_MKR_SAVES_ML, {L_SAVES}),
       Rule("achievements.sav actualizado", L_ACH :> E_ACH, NoTokens),
       Rule("marathon_recordings/ actualizado", L_MAR_SL :> E_MAR_SL, NoTokens),
       Rule("marathon_recordings actualizado", L_MAR :> E_MAR, {L_MAR}) >>

\* the matches of the rule that are not on a comment line
noncomment_matches(rule, c) ==
    SelectSeq(re_finditer(rule, c),
              LAMBDA i : ~is_comment_line(Lines(c)[MatchLine(rule, c, i)]))

RECURSIVE apply_noncomment(_, _, _)
apply_noncomment(rules, k, st) ==
    IF k > Len(rules) THEN st
    ELSE LET ms == noncomment_matches(rules[k], st.content)
         IN  apply_noncomment(rules, k + 1,
                Patched(re_sub(rules[k], st.content),
                        st.changes \o
                          [j \in 1..Len(ms) |->
                             Change(MatchLine(rules[k], st.content, ms[j]),
                                    rules[k].desc)],
                        st.at \o ms))

patch_save_manager(content) ==
    apply_noncomment(SaveRules, 1, Patched(content, <<>>, <<>>))

\* ------------------------------------------------------------------------
\* patch_resource_pack_loader and patch_tscn_files: one Change per match
\* ------------------------------------------------------------------------
RECURSIVE apply_each(_, _, _)
apply_each(rules, k, st) ==
    IF k > Len(rules) THEN st
    ELSE LET ms == re_finditer(rules[k], st.content)
         IN  apply_each(rules, k + 1,
                Patched(re_sub(rules[k], st.content),
                        st.changes \o
                          [j \in 1..Len(ms) |->
                             Change(MatchLine(rules[k], st.content, ms[j]),
                                    rules[k].desc)],
                        st.at \o ms))

ResourceRules ==
    << Rule("resource_packs/ actualizado", L_RP_SL :> E_RP_SL, NoTokens),
       Rule("resource_packs actualizado", L_RP :> E_RP, {L_RP}) >>

patch_resource_pack_loader(content) ==
    apply_each(ResourceRules, 1, Patched(content, <<>>, <<>>))

TscnDesc == "Referencia user:// actualizada"

TscnRules ==
    << Rule(TscnDesc, L_SAVES_SL :> E_SAVES_SL, NoTokens),
       Rule(TscnDesc, L_SAVES :> E_SAVES, {L_SAVES}),
       Rule(TscnDesc, L_ACH :> E_ACH, NoTokens),
       Rule(TscnDesc, L_MAR_SL :> E_MAR_SL, NoTokens),
       Rule(TscnDesc, L_MAR :> E_MAR, {L_MAR}),
       Rule(TscnDesc, L_MC_SL :> E_MC_SL, NoTokens),
       Rule(TscnDesc, L_MC :> E_MC, {L_MC}),
       Rule(TscnDesc, L_RP_SL :> E_RP_SL, NoTokens),
       Rule(TscnDesc, L_RP :> E_RP, {L_RP}) >>

\* tokens matched by "user://(saves|achievements|marathon_recordings|
\* mod_configs|resource_packs)[^"]*"
TscnPattern ==
    {L_SAVES, L_SAVES_SL, L_SAVES_OLD, L_CAMPAIGN, L_ACH, L_MAR, L_MAR_SL,
     L_MC, L_MC_SL, L_RP, L_RP_SL, L_RP_BASE}

\* re.search(pattern, content) of patch_tscn_files
tscn_search(content) == \E i \in 1..Len(content) : content[i] \in TscnPattern

patch_tscn(content) ==
    apply_each(TscnRules, 1, Patched(content, <<>>, <<>>))

\* ------------------------------------------------------------------------
\* verify_patches: the combined pattern
\* ------------------------------------------------------------------------
\* line pieces in which one of the eight patterns of verify_patches matches
Combined ==
    {L_SAVES, L_SAVES_SL, L_CAMPAIGN, C_SAVE_DIR, MKR_SAVES, SAVES_CLOSE,
     L_ACH, L_MAR, L_MAR_SL, L_MC, L_MC_SL, C_MODCFG, L_SETTINGS, C_SETTINGS,
     L_ROM, C_ROM, L_ROMPTR, C_ROMPTR, L_RP, L_RP_SL, L_RP_BASE, C_ASSETS,
     MK_RP}

\* re.search(combined, text) for a sequence of line pieces
combined_search(pieces) == \E i \in 1..Len(pieces) : pieces[i] \in Combined

\* the line numbers verify_patches reports for a .gd file
verify_gd(content) ==
    LET lines == Lines(content)
    IN  SelectSeq([i \in 1..Len(lines) |-> i],
                  LAMBDA i : ~is_comment_line(lines[i]) /\ combined_search(lines[i]))

\* whether verify_patches reports a .tscn file
verify_tscn(content) == combined_search(Flatten(content))

\* ------------------------------------------------------------------------
\* The kinds of target file and the texts considered for each
\* ------------------------------------------------------------------------
Kinds == {"cfg", "global", "settings", "modloader", "save", "respack", "tscn"}

Alphabet(kind) ==
    CASE kind = "cfg" ->
           {NL, TAB, HASH, CODE, MANAGE_F, READ_F, WRITE_F, MANAGE_T}
      [] kind = "global" ->
           {NL, TAB, HASH, CODE, C_ROMPTR, C_ROM, C_ASSETS, L_ROM}
      [] kind = "settings" ->
           {NL, TAB, HASH, CODE, C_SETTINGS, MK_RP, L_SETTINGS}
      [] kind = "modloader" ->
           {NL, TAB, HASH, CODE, C_MODCFG, L_MC}
      [] kind = "save" ->
           {NL, TAB, HASH, CODE, SLASHX, C_SAVE_DIR, MKR_SAVES, MKR_SAVES_ML,
            L_SAVES_SL, L_SAVES, L_ACH, L_MAR_SL, L_MAR, L_CAMPAIGN,
            L_SAVES_OLD}
      [] kind = "respack" ->
           {NL, TAB, HASH, CODE, SLASHX, L_RP_SL, L_RP, L_RP_BASE}
      [] kind = "tscn" ->
           {NL, HASH, CODE, SLASHX, L_SAVES_SL, L_SAVES, L_SAVES_OLD, L_ACH,
            L_MAR, L_MC, L_RP, L_CAMPAIGN, L_SETTINGS}

Texts(kind) ==
    UNION {[1..n -> Alphabet(kind)] : n \in 0..MaxLen}

\* the patch operation of each kind of file, as a function of the text read
PatchOf(kind, content) ==
    CASE kind = "cfg" -> patch_export_presets(content)
      [] kind = "global" -> patch_global_gd(content)
      [] kind = "settings" -> patch_settings_manager(content)
      [] kind = "modloader" -> patch_mod_loader_path(content)
      [] kind = "save" -> patch_save_manager(content)
      [] kind = "respack" -> patch_resource_pack_loader(content)
      [] kind = "tscn" ->
           IF tscn_search(content) THEN patch_tscn(content)
           ELSE Patched(content, <<>>, <<>>)

\* whether the patch operation writes the file (outside dry-run)
Writes(kind, content) ==
    LET r == PatchOf(kind, content)
    IN  IF kind \in {"save", "respack"} THEN r.content # content
        ELSE r.changes # <<>>

\* the locations verify_patches reports in one file: line numbers for a
\* .gd file, the file itself (0) for a .tscn file; other files are not
\* scanned
VerifyOf(kind, content) ==
    CASE kind = "cfg" -> <<>>
      [] kind = "tscn" -> IF verify_tscn(content) THEN <<0>> ELSE <<>>
      [] OTHER -> verify_gd(content)

\* ------------------------------------------------------------------------
\* The project tree
\* ------------------------------------------------------------------------
EXPORT == "export_presets.cfg"
GLOBAL == "Scripts/Classes/Singletons/Global.gd"
SETTINGS == "Scripts/Classes/Singletons/SettingsManager.gd"
MODLOADER == "addons/mod_loader/internal/path.gd"
SAVE == "Scripts/Classes/Singletons/SaveManager.gd"
RESPACK == "Scripts/Parts/ResourcePackLoader.gd"
SCENE == "scene.tscn"

Bases == {EXPORT, GLOBAL, SETTINGS, MODLOADER, SAVE, RESPACK, SCENE}

KindOf(base) ==
    CASE base = EXPORT -> "cfg"
      [] base = GLOBAL -> "global"
      [] base = SETTINGS -> "settings"
      [] base = MODLOADER -> "modloader"
      [] base = SAVE -> "save"
      [] base = RESPACK -> "respack"
      [] base = SCENE -> "tscn"
      [] OTHER -> "other"

\* the list of patches of run(): display name and target file
patches ==
    << [name |-> "export_presets.cfg", base |-> EXPORT],
       [name |-> "Global.gd", base |-> GLOBAL],
       [name |-> "SettingsManager.gd", base |-> SETTINGS],
       [name |-> "ModLoader path.gd", base |-> MODLOADER],
       [name |-> "SaveManager.gd", base |-> SAVE],
       [name |-> "ResourcePackLoader.gd", base |-> RESPACK] >>

\* A path below the project root: base is the path of a file of the
\* project, pre the timestamps of the backups/<timestamp>/ directories it
\* is nested in, outermost first.
Path(pre, base) == [pre |-> pre, base |-> base]
Root(base) == Path(<<>>, base)
NoPath == Path(<<>>, "None")

IsTscn(p) == KindOf(p.base) = "tscn"
IsGd(p) == KindOf(p.base) \in {"global", "settings", "modloader", "save", "respack"}

\* A file: its text, or bytes that are not valid UTF-8 (read_text raises)
File(text) == [utf8 |-> TRUE, text |-> text]
Undecodable == [utf8 |-> FALSE, text |-> <<>>]

Typical(base) ==
    CASE base = EXPORT -> <<MANAGE_F, NL, READ_F>>
      [] base = GLOBAL -> <<C_ROM>>
      [] base = SETTINGS -> <<C_SETTINGS, NL, MK_RP>>
      [] base = MODLOADER -> <<C_MODCFG>>
      [] base = SAVE -> <<C_SAVE_DIR, NL, HASH, L_SAVES, NL, L_ACH>>
      [] base = RESPACK -> <<L_RP_SL>>
      [] base = SCENE -> <<L_SAVES_SL>>

Shapes == {"typical", "absent", "undecodable"}

TreeOf(shape) ==
    [p \in {Root(b) : b \in {b \in Bases : shape[b] # "absent"}} |->
        IF shape[p.base] = "typical" THEN File(Typical(p.base))
        ELSE Undecodable]

InitialTrees ==
    {TreeOf(shape) : shape \in
        {sh \in [Bases -> Shapes] :
            Cardinality({b \in Bases : sh[b] # "typical"}) <= MaxDeviations}}

FileResult(filepath, success, changes, error, backup_path) ==
    [filepath |-> filepath, success |-> success, changes |-> changes,
     error |-> error, backup_path |-> backup_path]

\* ------------------------------------------------------------------------
\* create_backup
\* ------------------------------------------------------------------------
\* backup_dir / rel_path
BackupPath(p, ts) == Path(<<ts>> \o p.pre, p.base)

\* mkdir fails once the path is nested too deep (OSError, name too long)
create_backup_raises(p, dry) == ~dry /\ Len(p.pre) >= MaxDepth

\* the path create_backup returns
create_backup_path(p, ts, dry) ==
    IF dry THEN Path(p.pre, p.base \o ".backup") ELSE BackupPath(p, ts)

\* the tree after create_backup
create_backup_dry_writes(f, p, ts, dry) ==
    (BackupPath(p, ts) :> f[p]) @@ f

create_backup_none(f, p, ts, dry) == f

create_backup(f, p, ts, dry) ==
    IF dry THEN f ELSE (BackupPath(p, ts) :> f[p]) @@ f

\* ------------------------------------------------------------------------
\* verify_patches over the tree: the set of reported locations
\* ------------------------------------------------------------------------
verify_file(f, p) ==
    IF ~f[p].utf8 THEN {}
    ELSE IF IsGd(p) THEN
        {[path |-> p, line |-> verify_gd(f[p].text)[k]] :
            k \in 1..Len(verify_gd(f[p].text))}
    ELSE IF IsTscn(p) /\ verify_tscn(f[p].text) THEN {[path |-> p, line |-> 0]}
    ELSE {}

verify_patches(f) == UNION {verify_file(f, p) : p \in DOMAIN f}

\* ------------------------------------------------------------------------
\* RollbackManager
\* ------------------------------------------------------------------------
\* the timestamps of the directories below backups/
BackupDirs(f) == {p.pre[1] : p \in {q \in DOMAIN f : q.pre # <<>>}}

\* list_backups: newest first
RECURSIVE SortDesc(_)
SortDesc(S) ==
    IF S = {} THEN <<>>
    ELSE LET m == CHOOSE x \in S : \A y \in S : y <= x
         IN  <<m>> \o SortDesc(S \ {m})

list_backups(f) == SortDesc(BackupDirs(f))

\* shutil.copy2 of every file of backups/<t>/ that lies d directories deep
\* onto project_root / rel
RestoreLevel(f, t, d) ==
    LET src == {p \in DOMAIN f : p.pre # <<>> /\ p.pre[1] = t /\ Len(p.pre) = d}
        dst == {Path(Tail(p.pre), p.base) : p \in src}
    IN  [q \in DOMAIN f \cup dst |->
            IF q \in dst THEN f[Path(<<t>> \o q.pre, q.base)] ELSE f[q]]

RECURSIVE RestoreShallowFirst(_, _, _)
RestoreShallowFirst(f, t, d) ==
    IF d > MaxDepth + 1 THEN f
    ELSE RestoreShallowFirst(RestoreLevel(f, t, d), t, d + 1)

RECURSIVE RestoreDeepFirst(_, _, _)
RestoreDeepFirst(f, t, d) ==
    IF d < 1 THEN f
    ELSE RestoreDeepFirst(RestoreLevel(f, t, d), t, d - 1)

VARIABLES
    tkind,      \* text level: the kind of file
    tin,        \* text level: the text of the file before the patch
    ttext,      \* text level: the text of the file now
    tout,       \* text level: <<what the patch computed>>, <<>> before it
    tver,       \* text level: <<what verify_patches reports for ttext>>,
                \* <<>> before it has run on ttext
    project_godot,  \* project.godot exists in the project root
    fs,         \* the files below the project root: path -> file
    logs,       \* the patch_log_* files written
    clock,      \* the wall clock, in seconds, at the last invocation
    runs,       \* invocations of the tool so far
    pc,         \* position of the running invocation, "idle" between them
    dry_run,    \* self.dry_run
    timestamp,  \* self.timestamp
    idx,        \* index in patches of the patch at hand
    cur,        \* the file being patched between its read and its write
    results,    \* self.results
    todo,       \* .tscn paths rglob has still to yield
    seen,       \* .tscn paths rglob has yielded
    pre,        \* the tree as the running invocation found it
    hist,       \* one record per finished invocation
    exit_status \* exit status of the last finished invocation

tvars == <<tkind, tin, ttext, tout, tver>>

rvars == <<project_godot, fs, logs, clock, runs, pc, dry_run, timestamp, idx,
           cur, results, todo, seen, pre, hist, exit_status>>

vars == <<tkind, tin, ttext, tout, tver, project_godot, fs, logs, clock,
          runs, pc, dry_run, timestamp, idx, cur, results, todo, seen, pre,
          hist, exit_status>>

NoCur == [path |-> NoPath, backup_path |-> NoPath]

\* the run-level variables when no invocation has happened
TreeIdle(tree) ==
    /\ fs = tree
    /\ logs = {}
    /\ clock = 1
    /\ runs = 0
    /\ pc = "idle"
    /\ dry_run = FALSE
    /\ timestamp = 1
    /\ idx = 1
    /\ cur = NoCur
    /\ results = <<>>
    /\ todo = {}
    /\ seen = {}
    /\ pre = tree
    /\ hist = <<>>
    /\ exit_status = 0

\* the text-level variables when unused
TextIdle ==
    /\ tkind = "cfg"
    /\ tin = <<>>
    /\ ttext = <<>>
    /\ tout = <<>>
    /\ tver = <<>>

\* ------------------------------------------------------------------------
\* Text-level specification: one file, one patch, verification
\* ------------------------------------------------------------------------
TextInit ==
    /\ tkind \in Kinds
    /\ tin \in Texts(tkind)
    /\ ttext = tin
    /\ tout = <<>>
    /\ tver = <<>>
    /\ project_godot = TRUE
    /\ TreeIdle(<< >>)

\* one non-dry patch of the file
TextPatch ==
    /\ tout = <<>>
    /\ tout' = <<PatchOf(tkind, tin)>>
    /\ ttext' = IF Writes(tkind, tin) THEN tout'[1].content ELSE tin
    /\ tver' = <<>>
    /\ UNCHANGED <<tkind, tin>>
    /\ UNCHANGED rvars

\* verify_patches on the file as it is now
TextVerify ==
    /\ tver = <<>>
    /\ tver' = <<VerifyOf(tkind, ttext)>>
    /\ UNCHANGED <<tkind, tin, ttext, tout>>
    /\ UNCHANGED rvars

TextNext == TextPatch \/ TextVerify

SpecText == TextInit /\ [][TextNext]_vars

\* ------------------------------------------------------------------------
\* Run-level specification: invocations of the tool on a project tree
\* ------------------------------------------------------------------------
Init ==
    /\ TextIdle
    /\ project_godot \in BOOLEAN
    /\ \E tree \in InitialTrees : TreeIdle(tree)

Entry(cmd, dry, ts, before, res, ret, remaining) ==
    [cmd |-> cmd, dry_run |-> dry, timestamp |-> ts, pre |-> before,
     results |-> res, ret |-> ret, remaining |-> remaining]

TscnFiles(f) == {p \in DOMAIN f : IsTscn(p)}

\* The order in which rglob walks directories: a directory's files before
\* its subdirectories, sibling directories by name.  (os.scandir leaves the
\* order of siblings open; it is the same whenever the tree is the same.)
RECURSIVE WalksBefore(_, _)
WalksBefore(a, b) ==
    IF a = <<>> THEN b # <<>>
    ELSE IF b = <<>> THEN FALSE
    ELSE IF Head(a) # Head(b) THEN Head(a) < Head(b)
    ELSE WalksBefore(Tail(a), Tail(b))

\* the next path rglob yields
NextYield(S) == CHOOSE p \in S : \A q \in S \ {p} : WalksBefore(p.pre, q.pre)

\* main() without --rollback: the patcher is constructed and run() starts;
\* validate_project decides whether it goes on.  The timestamp is the wall
\* clock at construction: the second of the previous invocation or a later
\* one (timestamps are only compared with each other, so one later second
\* stands for any).
StartRun(dry, now) ==
    /\ pc = "idle"
    /\ runs < MaxRuns
    /\ runs' = runs + 1
    /\ clock' = now
    /\ dry_run' = dry
    /\ timestamp' = now
    /\ pre' = fs
    /\ results' = <<>>
    /\ idx' = 1
    /\ IF project_godot
       THEN /\ pc' = "patch"
            /\ UNCHANGED <<hist, exit_status>>
       ELSE /\ pc' = "idle"
            /\ hist' = Append(hist, Entry("run", dry, now, fs, <<>>, FALSE, {}))
            /\ exit_status' = 1
    /\ UNCHANGED <<project_godot, fs, logs, cur, todo, seen>>
    /\ UNCHANGED tvars

\* the loop of run() moves to the next patch, or to patch_tscn_files, whose
\* rglob starts from the .tscn files of the tree f
Advance(f) ==
    IF idx < Len(patches)
    THEN /\ pc' = "patch"
         /\ idx' = idx + 1
         /\ UNCHANGED <<todo, seen>>
    ELSE /\ pc' = "tscn"
         /\ idx' = idx
         /\ todo' = TscnFiles(f)
         /\ seen' = {}

NotFound_all_optional(p) ==
    FileResult(p, TRUE, <<>>, "Archivo no encontrado (opcional)", NoPath)

NotFound(p) ==
    IF p.base = RESPACK
    THEN FileResult(p, TRUE, <<>>, "Archivo no encontrado (opcional)", NoPath)
    ELSE FileResult(p, FALSE, <<>>, "Archivo no encontrado", NoPath)

\* a patch_* method up to and including its read_text
PatchOpen ==
    /\ pc = "patch"
    /\ LET p == Root(patches[idx].base)
       IN  IF p \notin DOMAIN fs
           THEN /\ results' = Append(results, NotFound(p))
                /\ Advance(fs)
                /\ UNCHANGED <<fs, cur>>
           ELSE /\ fs' = create_backup(fs, p, timestamp, dry_run)
                /\ IF fs[p].utf8
                   THEN /\ pc' = "write"
                        /\ cur' = [path |-> p,
                                   backup_path |->
                                     create_backup_path(p, timestamp, dry_run)]
                        /\ UNCHANGED <<results, idx, todo, seen>>
                   ELSE /\ results' = Append(results,
                               FileResult(Root(patches[idx].name), FALSE, <<>>,
                                          "UnicodeDecodeError", NoPath))
                        /\ Advance(fs')
                        /\ UNCHANGED cur
    /\ UNCHANGED <<project_godot, logs, clock, runs, dry_run, timestamp, pre,
                   hist, exit_status>>
    /\ UNCHANGED tvars

\* the rest of the patch_* method: substitution, conditional write, result
PatchApply ==
    /\ pc = "write"
    /\ LET p == cur.path
           kind == KindOf(p.base)
           r == PatchOf(kind, fs[p].text)
       IN  /\ fs' = IF ~dry_run /\ Writes(kind, fs[p].text)
                    THEN [fs EXCEPT ![p] = File(r.content)]
                    ELSE fs
           /\ results' = Append(results,
                  FileResult(p, TRUE, r.changes, "None", cur.backup_path))
           /\ Advance(fs')
    /\ cur' = NoCur
    /\ UNCHANGED <<project_godot, logs, clock, runs, dry_run, timestamp, pre,
                   hist, exit_status>>
    /\ UNCHANGED tvars

\* patch_tscn_files, one file yielded by rglob, up to create_backup.  A
\* backup written below backups/ while rglob is walking the tree is yielded
\* later or not, depending on the order of the walk.
TscnOpen(p) ==
    /\ pc = "tscn"
    /\ todo # {}
    /\ p = NextYield(todo)
    /\ seen' = seen \cup {p}
    /\ IF ~fs[p].utf8
       THEN /\ results' = Append(results,
                   FileResult(p, FALSE, <<>>, "UnicodeDecodeError", NoPath))
            /\ todo' = todo \ {p}
            /\ UNCHANGED <<fs, pc, cur>>
       ELSE IF ~tscn_search(fs[p].text)
       THEN /\ todo' = todo \ {p}
            /\ UNCHANGED <<fs, pc, cur, results>>
       ELSE IF create_backup_raises(p, dry_run)
       THEN /\ results' = Append(results,
                   FileResult(p, FALSE, <<>>, "File name too long", NoPath))
            /\ todo' = todo \ {p}
            /\ UNCHANGED <<fs, pc, cur>>
       ELSE /\ fs' = create_backup(fs, p, timestamp, dry_run)
            /\ pc' = "tscn_write"
            /\ cur' = [path |-> p,
                       backup_path |-> create_backup_path(p, timestamp, dry_run)]
            /\ \/ todo' = todo \ {p}
               \/ /\ ~dry_run
                  /\ BackupPath(p, timestamp) \notin seen'
                  /\ todo' = (todo \ {p}) \cup {BackupPath(p, timestamp)}
            /\ UNCHANGED results
    /\ UNCHANGED <<project_godot, logs, clock, runs, dry_run, timestamp, idx,
                   pre, hist, exit_status>>
    /\ UNCHANGED tvars

\* patch_tscn_files, the rest of the loop body for the file
TscnApply ==
    /\ pc = "tscn_write"
    /\ LET p == cur.path
           r == patch_tscn(fs[p].text)
       IN  /\ fs' = IF ~dry_run /\ r.changes # <<>>
                    THEN [fs EXCEPT ![p] = File(r.content)]
                    ELSE fs
           /\ results' = Append(results,
                  FileResult(p, TRUE, r.changes, "None", cur.backup_path))
    /\ pc' = "tscn"
    /\ cur' = NoCur
    /\ UNCHANGED <<project_godot, logs, clock, runs, dry_run, timestamp, idx,
                   todo, seen, pre, hist, exit_status>>
    /\ UNCHANGED tvars

\* all(r.success for r in self.results)
all_success(res, remaining) == \A k \in 1..Len(res) : res[k].success

\* the end of run(): verification (not in dry-run), summary, log, return
\* value, and the exit status main() derives from it
Finish ==
    /\ pc = "tscn"
    /\ todo = {}
    /\ LET remaining == IF dry_run THEN {} ELSE verify_patches(fs)
           ret == all_success(results, remaining)
       IN  /\ hist' = Append(hist, Entry("run", dry_run, timestamp, pre,
                                         results, ret, remaining))
           /\ exit_status' = IF ret THEN 0 ELSE 1
    /\ logs' = logs \cup {[timestamp |-> timestamp, dryrun |-> dry_run]}
    /\ pc' = "idle"
    /\ UNCHANGED <<project_godot, fs, clock, runs, dry_run, timestamp, idx,
                   cur, results, todo, seen, pre>>
    /\ UNCHANGED tvars

\* main() with --rollback: RollbackManager.rollback() with no directory
\* named.  The files of the backup directory are copied in the order of
\* the walk: a directory's files before or after those of its
\* subdirectories.
rollback ==
    /\ pc = "idle"
    /\ runs < MaxRuns
    /\ runs' = runs + 1
    /\ LET backups == list_backups(fs)
       IN  IF backups = <<>>
           THEN /\ hist' = Append(hist, Entry("rollback", FALSE, clock, fs,
                                              <<>>, FALSE, {}))
                /\ exit_status' = 1
                /\ UNCHANGED fs
           ELSE /\ \/ fs' = RestoreShallowFirst(fs, backups[1], 1)
                   \/ fs' = RestoreDeepFirst(fs, backups[1], MaxDepth + 1)
                /\ hist' = Append(hist, Entry("rollback", FALSE, clock, fs,
                                              <<>>, TRUE, {}))
                /\ exit_status' = 0
    /\ UNCHANGED <<project_godot, logs, clock, pc, dry_run, timestamp, idx,
                   cur, results, todo, seen, pre>>
    /\ UNCHANGED tvars

Next ==
    \/ \E dry \in BOOLEAN, now \in {clock, clock + 1} \cap (1..MaxTime) :
          StartRun(dry, now)
    \/ PatchOpen
    \/ PatchApply
    \/ \E p \in todo : TscnOpen(p)
    \/ TscnApply
    \/ Finish
    \/ rollback

Spec == Init /\ [][Next]_vars

\* ------------------------------------------------------------------------
\* Properties
\* ------------------------------------------------------------------------
Last(h) == h[Len(h)]

\* an invocation of run() has returned and nothing has been invoked since
RunFinished ==
    pc = "idle" /\ hist # <<>> /\ Last(hist).cmd = "run"

\* the run went past validate_project
Validated(run) == run.results # <<>>

\* C1: in dry-run mode run() writes nothing to the project: during and
\* after a dry run every file of the tree (every target file, every .tscn
\* file) has its pre-run content, and no backup file or directory exists
\* that did not exist before.
C1_DryRunWritesNothing ==
    (dry_run /\ (pc # "idle" \/ RunFinished)) => fs = pre

\* a dry run has finished and reported changes for the six targets and
\* for a .tscn file
C1_Witness ==
    /\ RunFinished
    /\ Last(hist).dry_run
    /\ Len(Last(hist).results) > Len(patches)
    /\ \A k \in 1..Len(patches) : Last(hist).results[k].changes # <<>>
    /\ \E k \in 1..Len(Last(hist).results) :
          /\ IsTscn(Last(hist).results[k].filepath)
          /\ Last(hist).results[k].changes # <<>>

\* C2: backup-before-write: whenever a step of a non-dry run gives a file
\* new content, the file's copy under this run's backup directory exists
\* before the step, holds the content the step overwrites, and holds the
\* content the file had before the run if the file existed then.
C2_BackupBeforeWrite ==
    [][(~dry_run /\ pc \in {"write", "tscn_write"}) =>
          \A p \in DOMAIN fs :
              fs'[p] # fs[p] =>
                  /\ BackupPath(p, timestamp) \in DOMAIN fs
                  /\ fs[BackupPath(p, timestamp)] = fs[p]
                  /\ (p \in DOMAIN pre => fs[BackupPath(p, timestamp)] = pre[p])
       ]_vars

\* a non-dry run has rewritten a target file and a .tscn file of the
\* project
C2_Witness ==
    /\ ~dry_run
    /\ pc = "tscn"
    /\ {Root(SAVE), Root(SCENE)} \subseteq DOMAIN pre
    /\ fs[Root(SAVE)] # pre[Root(SAVE)]
    /\ fs[Root(SCENE)] # pre[Root(SCENE)]
    /\ BackupPath(Root(SCENE), timestamp) \in DOMAIN fs

\* the files for which a run recorded a backup
BackedUp(run) ==
    {run.results[k].filepath :
        k \in {j \in 1..Len(run.results) : run.results[j].backup_path # NoPath}}

\* C3: rollback() without a named directory after a sequence of non-dry
\* runs returns True and gives every file the latest run backed up the
\* content it had immediately before that run.
C3_RollbackRestoresLatestRun ==
    ( /\ pc = "idle"
      /\ Len(hist) >= 2
      /\ Last(hist).cmd = "rollback"
      /\ \A i \in 1..(Len(hist) - 1) : hist[i].cmd = "run" /\ ~hist[i].dry_run
      /\ BackedUp(hist[Len(hist) - 1]) # {} )
    => LET run == hist[Len(hist) - 1]
       IN  /\ Last(hist).ret = TRUE
           /\ \A p \in BackedUp(run) \cap DOMAIN run.pre :
                 p \in DOMAIN fs /\ fs[p] = run.pre[p]

\* C4: a non-dry run whose verification finds a residual match returns
\* False and exits with a non-zero status.
C4_ResidualsFailTheRun ==
    (RunFinished /\ ~Last(hist).dry_run /\ Last(hist).remaining # {})
    => (Last(hist).ret = FALSE /\ exit_status # 0)

\* the target file is missing when the run starts
Missing(run, base) == Root(base) \notin DOMAIN run.pre

\* the patch of the target file raises (read_text cannot decode it)
Raises(run, base) ==
    Root(base) \in DOMAIN run.pre /\ ~run.pre[Root(base)].utf8

SixTargets == {patches[k].base : k \in 1..Len(patches)}

\* C5 as claimed: if the patch of any of the six target files fails (file
\* not found, or exception), run() returns False and the exit status is
\* non-zero.
C5_AnyTargetFailureFailsTheRun ==
    (RunFinished /\
        \E b \in SixTargets : Missing(Last(hist), b) \/ Raises(Last(hist), b))
    => (Last(hist).ret = FALSE /\ exit_status # 0)

\* C5 as amended: run() returns False and the exit status is non-zero if
\* one of the five targets other than ResourcePackLoader.gd is missing, or
\* the patch of any of the six raises; a missing ResourcePackLoader.gd is
\* recorded as a success.
C5_RequiredTargetFailureFailsTheRun ==
    RunFinished =>
      /\ (\E b \in SixTargets :
              \/ (b # RESPACK /\ Missing(Last(hist), b))
              \/ Raises(Last(hist), b))
          => (Last(hist).ret = FALSE /\ exit_status # 0)
      /\ (Validated(Last(hist)) /\ Missing(Last(hist), RESPACK))
          => Last(hist).results[6].success

\* a run of a valid project has finished with a required target missing
C5_Witness ==
    /\ RunFinished
    /\ Validated(Last(hist))
    /\ \E b \in SixTargets \ {RESPACK} : Missing(Last(hist), b)
    /\ Last(hist).ret = FALSE

\* ---- text level ----

TokenRules(kind) ==
    CASE kind = "global" -> GlobalRules
      [] kind = "settings" -> SettingsRules
      [] kind = "modloader" -> ModLoaderRules
      [] kind = "save" -> SaveRules
      [] kind = "respack" -> ResourceRules
      [] kind = "tscn" -> TscnRules
      [] OTHER -> <<>>

\* no rule of the file's patch matches anywhere in the text
NoRuleMatches(kind, text) ==
    /\ \A k \in 1..Len(TokenRules(kind)) :
          re_finditer(TokenRules(kind)[k], text) = <<>>
    /\ kind = "cfg" =>
          \A l \in 1..Len(Lines(text)) : export_first(Lines(text)[l]) = 0

Substitutions(kind, before, after) ==
    IF kind = "cfg"
    THEN Cardinality({l \in 1..Len(Lines(before)) :
                         Lines(before)[l] # Lines(after)[l]})
    ELSE Cardinality({i \in 1..Len(before) : before[i] # after[i]})

\* C7: the number of Change records of a file's FileResult equals the
\* number of literal occurrences the patch substitutes in the file.
C7_OneChangePerSubstitution ==
    tout # <<>> => Len(tout[1].changes) = Substitutions(tkind, tin, ttext)

\* the line of the original text on which the literal of token i stands:
\* the last line of the token
LiteralLine(c, i) == LineNumber(c, i) + count_nl(Expand(c[i]))

\* C8: every Change carries the number, in the file as it was before the
\* run, of the line of the rewritten literal (any line of the match is
\* accepted here when the match spans two lines).
C8_LineAccurate ==
    tout # <<>> =>
        \A k \in 1..Len(tout[1].changes) :
            /\ tout[1].changes[k].line_number >= LineNumber(tin, tout[1].at[k])
            /\ tout[1].changes[k].line_number <= LiteralLine(tin, tout[1].at[k])

\* a line whose first character after whitespace is '#'
CommentLine(line) ==
    \E i \in 1..Len(line) :
        line[i] = HASH /\ \A j \in 1..(i - 1) : line[j] = TAB

HoldsForbidden(line) == \E i \in 1..Len(line) : line[i] \in Combined

\* the lines of the text that hold a forbidden literal and are no comment
ForbiddenLines(text) ==
    {l \in 1..Len(Lines(text)) :
        HoldsForbidden(Lines(text)[l]) /\ ~CommentLine(Lines(text)[l])}

\* C10 as claimed: whatever the file (.gd or .tscn), verify_patches reports
\* it only if a forbidden literal stands on a line that is no comment.
C10_VerificationSkipsComments ==
    (tver # <<>> /\ tver[1] # <<>>) => ForbiddenLines(ttext) # {}

\* C10 as amended: in a .gd file verify_patches reports exactly the lines
\* that hold a forbidden literal and are no comment lines, so a .gd file
\* whose forbidden literals are all on comment lines verifies as clean;
\* a .tscn file is searched as a whole, comment lines included.
C10_GdVerificationSkipsComments ==
    /\ (tver # <<>> /\ tkind \notin {"cfg", "tscn"}) =>
          {tver[1][k] : k \in 1..Len(tver[1])} = ForbiddenLines(ttext)
    /\ (tver # <<>> /\ tkind = "tscn") =>
          (tver[1] # <<>> <=> HoldsForbidden(Flatten(ttext)))

\* an unpatched .gd file whose only forbidden literal is on an indented
\* comment line verifies as clean
C10_Witness ==
    /\ tkind = "save"
    /\ tout = <<>>
    /\ tver = << <<>> >>
    /\ \E l \in 1..Len(Lines(ttext)) :
          /\ HoldsForbidden(Lines(ttext)[l])
          /\ Lines(ttext)[l][1] = TAB

\* the literal of token i stands on a comment line of the text
OnCommentLine(c, i) == CommentLine(Lines(c)[LiteralLine(c, i)])

\* C11: a known path literal on a comment line of a target .gd file is no
\* match for the patch: the patch leaves it as it is in the written file
\* and records no Change for it.
C11_CommentLinesUntouched ==
    (tout # <<>> /\ tkind \notin {"cfg", "tscn"}) =>
        \A i \in 1..Len(tin) :
            OnCommentLine(tin, i) =>
                /\ ttext[i] = tin[i]
                /\ \A k \in 1..Len(tout[1].at) : tout[1].at[k] # i

\* C12: a non-dry patch changes the content of its file only if its
\* FileResult holds at least one Change: with an empty Change list the
\* file is as it was.
C12_WriteOnlyWithChanges ==
    (tout # <<>> /\ tout[1].changes = <<>>) => ttext = tin

\* the texts a list of rules produces: the text read, then the text after
\* each rule in turn
RECURSIVE Steps(_, _, _)
Steps(rules, k, c) ==
    IF k > Len(rules) THEN <<c>>
    ELSE <<c>> \o Steps(rules, k + 1, re_sub(rules[k], c))

\* literals that share a prefix with a known path and are no known path
PrefixOnly == {L_SAVES_OLD, L_CAMPAIGN, L_RP_BASE}

Min(S) == CHOOSE m \in S : \A n \in S : m <= n

Reported(res) ==
    [k \in 1..Len(res) |->
        [filepath |-> res[k].filepath, success |-> res[k].success,
         error |-> res[k].error, changes |-> res[k].changes]]

\* C9: from the same starting tree, a dry run and a non-dry run produce
\* the same sequence of FileResults (file, success, error, Changes) and
\* return the same boolean.
C9_DryApplySymmetry ==
    \A i \in 1..(Len(hist) - 1) :
        ( /\ hist[i].cmd = "run" /\ hist[i].dry_run
          /\ hist[i + 1].cmd = "run" /\ ~hist[i + 1].dry_run
          /\ hist[i].pre = hist[i + 1].pre )
        => /\ Reported(hist[i].results) = Reported(hist[i + 1].results)
           /\ hist[i].ret = hist[i + 1].ret

\* the last two invocations were non-dry runs, and the second has returned
TwoRunsFinished ==
    /\ RunFinished
    /\ Len(hist) >= 2
    /\ ~Last(hist).dry_run
    /\ hist[Len(hist) - 1].cmd = "run"
    /\ ~hist[Len(hist) - 1].dry_run

\* C14: patching is idempotent: a second non-dry run executed after a
\* first non-dry run records no Change for any file it reports on, and
\* every such file has afterwards the content the first run left.
C14_SecondRunChangesNothing ==
    TwoRunsFinished =>
        \A k \in 1..Len(Last(hist).results) :
            LET r == Last(hist).results[k]
            IN  /\ r.changes = <<>>
                /\ r.filepath \in DOMAIN Last(hist).pre =>
                      fs[r.filepath] = Last(hist).pre[r.filepath]

\* every invocation so far was a non-dry run, and the last has returned
OnlyRuns ==
    /\ RunFinished
    /\ \A i \in 1..Len(hist) : hist[i].cmd = "run" /\ ~hist[i].dry_run

\* C15: backups are per-run and never overwritten: a non-dry run stores
\* its backups in a directory no earlier run has stored backups in, and
\* every file that was below backups/ when the run started still has the
\* content it had then.
C15_BackupsNeverOverwritten ==
    OnlyRuns =>
        /\ \A i \in 1..(Len(hist) - 1) :
              (BackedUp(hist[i]) # {} /\ BackedUp(Last(hist)) # {}) =>
                  hist[i].timestamp # Last(hist).timestamp
        /\ \A p \in DOMAIN Last(hist).pre :
              p.pre # <<>> => (p \in DOMAIN fs /\ fs[p] = Last(hist).pre[p])

====
